---- MODULE Spec2Model ----
(***************************************************************************)
(* Authorization gate and hash-chained audit ledger of zumo-demo:          *)
(* PolicyEngine (src/lib/policy-engine.ts) and AuditLogger                 *)
(* (src/lib/audit.ts) over the Prisma store (Employee, Policy,             *)
(* ApprovalRequest, AuditLog tables).                                      *)
(*                                                                         *)
(* Strings are TLA+ strings and template literals are concatenations, so   *)
(* the rate-limit key and the hash payload are built as the code builds    *)
(* them.  SHA-256 is modelled as a collision-free digest of its payload.   *)
(* Optional values (null / undefined) are the empty set, a present value x *)
(* is {x}.  The clock is Date.now() in milliseconds; it never runs         *)
(* backwards and two operations may read the same millisecond.             *)
(***************************************************************************)
EXTENDS Integers, Sequences, FiniteSets, TLC

VARIABLES
    now,               \* the wall clock, ms since the epoch
    policies,          \* rows of the Policy table
    rateLimitMap,      \* the process-wide Map<string, RateLimitEntry>
    approvalRequests,  \* rows of the ApprovalRequest table, in insertion order
    auditLog,          \* rows of the AuditLog table, in insertion order
    calls,             \* history: every operation that returned, with its result
    inflight           \* per request being served: where its handler stands, its locals

vars == <<now, policies, rateLimitMap, approvalRequests, auditLog, calls, inflight>>

-----------------------------------------------------------------------------
(* Bounds of the model *)

\* windows of RATE_LIMIT_WINDOW_MS the clock may run through
MaxWindows == 1
\* rows of the Policy table that match one (employee, capability)
MaxPolicies == 2

\* requests the server may be serving at once
MaxRequests == 3

-----------------------------------------------------------------------------
(* Program constants *)

RATE_LIMIT_WINDOW_MS == 60000

DEFAULT_RATE_LIMIT == 60

GENESIS_HASH == "0000000000000000000000000000000000000000000000000000000000000000"

None == {}

Some(x) == {x}

\* the value held by a present optional
The(o) == CHOOSE x \in o : TRUE

-----------------------------------------------------------------------------
(* Strings *)

Digit == <<"0", "1", "2", "3", "4", "5", "6", "7", "8", "9">>

\* `${n}` of a non-negative integer
RECURSIVE NumStr(_)
NumStr(n) ==
    IF n < 10 THEN Digit[n + 1] ELSE NumStr(n \div 10) \o Digit[(n % 10) + 1]

\* String(n).padStart(2, "0") of n < 100
TwoDigits(n) == Digit[(n \div 10) + 1] \o Digit[(n % 10) + 1]

\* String(n).padStart(3, "0") of n < 1000
ThreeDigits(n) == Digit[(n \div 100) + 1] \o TwoDigits(n % 100)

\* Date.prototype.toISOString of a time on the first day of the epoch
toISOString(ms) ==
    "1970-01-01T" \o TwoDigits(ms \div 3600000)
        \o ":" \o TwoDigits((ms \div 60000) % 60)
        \o ":" \o TwoDigits((ms \div 1000) % 60)
        \o "." \o ThreeDigits(ms % 1000) \o "Z"

-----------------------------------------------------------------------------
(* The clock *)

\* the instants the clock is read at: the start, one ms later, and the two
\* sides of each window boundary
Times ==
    {0, 1} \cup {k * RATE_LIMIT_WINDOW_MS + d : k \in 1..MaxWindows, d \in 0..1}

Tick ==
    /\ \E t \in Times : t > now /\ now' = t
    /\ UNCHANGED <<policies, rateLimitMap, approvalRequests, auditLog, calls, inflight>>

-----------------------------------------------------------------------------
(* Audit ledger, src/lib/audit.ts *)

\* createHash('sha256').update(payload).digest('hex')
sha256(payload) == "sha256(" \o payload \o ")"

computeHash(previousHash, action, details, timestamp) ==
    sha256(previousHash \o "|" \o action \o "|" \o details \o "|" \o timestamp)

\* the rows with the greatest timestamp: what ORDER BY timestamp DESC may put first
LatestRows(rows) ==
    {i \in 1..Len(rows) : \A j \in 1..Len(rows) : rows[j].timestamp <= rows[i].timestamp}

\* the values getLastHash may return: findFirst({orderBy: {timestamp: 'desc'}})
\* yields any row with the greatest timestamp, and the genesis hash on no row
getLastHash(rows) ==
    IF rows = <<>> THEN {GENESIS_HASH} ELSE {rows[i].hash : i \in LatestRows(rows)}

\* NewEntry with the timestamp stored to the second
NewEntry_SecondPrecision(previousHash, action, details, employeeId, timestamp) ==
    [ action       |-> action,
      details      |-> details,
      hash         |-> computeHash(previousHash, action, details, toISOString(timestamp)),
      previousHash |-> previousHash,
      timestamp    |-> (timestamp \div 1000) * 1000,
      employeeId   |-> IF employeeId = "" THEN None ELSE Some(employeeId) ]

\* the row AuditLogger.log creates on reading previousHash at time timestamp
NewEntry(previousHash, action, details, employeeId, timestamp) ==
    [ action       |-> action,
      details      |-> details,
      hash         |-> computeHash(previousHash, action, details, toISOString(timestamp)),
      previousHash |-> previousHash,
      timestamp    |-> timestamp,
      employeeId   |-> IF employeeId = "" THEN None ELSE Some(employeeId) ]

\* the orders of the row numbers in S that never step down in timestamp: any
\* row of the least timestamp, then the others likewise
RECURSIVE AscOrdersOf(_, _)
AscOrdersOf(rows, S) ==
    IF S = {} THEN {<<>>}
    ELSE UNION { {<<i>> \o ord : ord \in AscOrdersOf(rows, S \ {i})} :
                    i \in {k \in S : \A j \in S : rows[k].timestamp <= rows[j].timestamp} }

\* the orders findMany({orderBy: {timestamp: 'asc'}}) may return the rows in:
\* the permutations of the row numbers that never step down in timestamp
AscOrders(rows) == AscOrdersOf(rows, 1..Len(rows))

\* VerifyFrom without the comparison of the stored hash with the recomputed one
RECURSIVE VerifyFrom_LinksOnly(_, _, _)
VerifyFrom_LinksOnly(entries, i, expectedPreviousHash) ==
    IF i > Len(entries) THEN [valid |-> TRUE, brokenAt |-> None]
    ELSE IF entries[i].previousHash # expectedPreviousHash
        THEN [valid |-> FALSE, brokenAt |-> Some(i - 1)]
    ELSE VerifyFrom_LinksOnly(entries, i + 1, entries[i].hash)

\* the loop of verifyChain from index i (1-based here) with the running hash
RECURSIVE VerifyFrom(_, _, _)
VerifyFrom(entries, i, expectedPreviousHash) ==
    IF i > Len(entries) THEN [valid |-> TRUE, brokenAt |-> None]
    ELSE IF entries[i].previousHash # expectedPreviousHash
        THEN [valid |-> FALSE, brokenAt |-> Some(i - 1)]
    ELSE IF entries[i].hash # computeHash(entries[i].previousHash, entries[i].action,
                                          entries[i].details, toISOString(entries[i].timestamp))
        THEN [valid |-> FALSE, brokenAt |-> Some(i - 1)]
    ELSE VerifyFrom(entries, i + 1, entries[i].hash)

\* AuditLogger.verifyChain on the rows as the store returned them
verifyChain(entries) ==
    IF Len(entries) = 0 THEN [valid |-> TRUE, brokenAt |-> None]
    ELSE VerifyFrom(entries, 1, GENESIS_HASH)

\* rows in the order ord
Ordered(rows, ord) == [i \in 1..Len(rows) |-> rows[ord[i]]]

\* every answer verifyChain may give on the table as it stands
VerifyResults(rows) == {verifyChain(Ordered(rows, ord)) : ord \in AscOrders(rows)}

\* log refusing to append to a chain that verifyChain would not accept
log_VerifiedFirst(action, details, employeeId) ==
    /\ VerifyResults(auditLog) = {[valid |-> TRUE, brokenAt |-> None]}
    /\ \E previousHash \in getLastHash(auditLog) :
        auditLog' = Append(auditLog, NewEntry(previousHash, action, details, employeeId, now))

\* log writing the new row over the last one
log_OverLast(action, details, employeeId) ==
    \E previousHash \in getLastHash(auditLog) :
        auditLog' =
            IF auditLog = <<>>
            THEN <<NewEntry(previousHash, action, details, employeeId, now)>>
            ELSE [auditLog EXCEPT ![Len(auditLog)] =
                    NewEntry(previousHash, action, details, employeeId, now)]

\* AuditLogger.log: read the tail hash, read the clock, hash, insert
log(action, details, employeeId) ==
    \E previousHash \in getLastHash(auditLog) :
        auditLog' = Append(auditLog, NewEntry(previousHash, action, details, employeeId, now))

-----------------------------------------------------------------------------
(* The store: Employee and Policy tables *)

\* rows of the Employee table (read only by the engine), one per autonomy mode
\* the engine tells apart and one it does not know; two share a team and one
\* has none
Employees ==
    { [id |-> "emp-maya", name |-> "Maya", autonomyMode |-> "full", teamId |-> Some("team-support")],
      [id |-> "emp-emma", name |-> "Emma", autonomyMode |-> "supervised", teamId |-> Some("team-support")],
      [id |-> "emp-alex", name |-> "Alex", autonomyMode |-> "restricted", teamId |-> Some("team-engineering")],
      [id |-> "emp-sentinel", name |-> "Sentinel", autonomyMode |-> "manual_approval", teamId |-> None] }

EmployeeIds == {e.id : e \in Employees}

\* findUnique answering an unknown id with a supervised employee of that id
findUnique_OrDefault(id) ==
    IF \E e \in Employees : e.id = id
    THEN {e \in Employees : e.id = id}
    ELSE {[id |-> id, name |-> id, autonomyMode |-> "supervised", teamId |-> None]}

\* prisma.employee.findUnique({where: {id}}): the row, or null
findUnique(id) == {e \in Employees : e.id = id}

\* prisma.policy.findMany({where: {employeeId, capability}}), as a set of rows
findMany(employeeId, capability) ==
    {p \in policies : p.employeeId = employeeId /\ p.capability = capability}

\* the orders a query without ORDER BY may return the rows of S in
Orderings(S) ==
    {ord \in [1..Cardinality(S) -> S] : \A i, j \in 1..Cardinality(S) : i # j => ord[i] # ord[j]}

-----------------------------------------------------------------------------
(* Policy engine, src/lib/policy-engine.ts *)

Min(a, b) == IF a <= b THEN a ELSE b

\* the key of the rate-limit map
RateKey(employeeId, action) == employeeId \o ":" \o action

\* WindowExpired with >= for >: the window ends one millisecond early
WindowExpired_AtBoundary(map, key, t) ==
    key \notin DOMAIN map \/ t - map[key].windowStart >= RATE_LIMIT_WINDOW_MS

\* !entry || now - entry.windowStart > RATE_LIMIT_WINDOW_MS
WindowExpired(map, key, t) ==
    key \notin DOMAIN map \/ t - map[key].windowStart > RATE_LIMIT_WINDOW_MS

\* rateLimitMap.set(key, entry)
MapSet(map, key, entry) ==
    [k \in DOMAIN map \cup {key} |-> IF k = key THEN entry ELSE map[k]]

\* checkRateLimit answering yes whatever the count of a live counter is
checkRateLimit_CountIgnored(map, employeeId, action, limit, t) ==
    LET effectiveLimit == IF limit = None THEN DEFAULT_RATE_LIMIT ELSE The(limit)
        key == RateKey(employeeId, action)
    IN  IF WindowExpired(map, key, t)
        THEN [withinLimit |-> TRUE, map |-> MapSet(map, key, [count |-> 1, windowStart |-> t])]
        ELSE [withinLimit |-> map[key].count <= map[key].count, map |-> map]

\* checkRateLimit at clock reading t: the answer, and the map it leaves
checkRateLimit(map, employeeId, action, limit, t) ==
    LET effectiveLimit == IF limit = None THEN DEFAULT_RATE_LIMIT ELSE The(limit)
        key == RateKey(employeeId, action)
    IN  IF WindowExpired(map, key, t)
        THEN [withinLimit |-> TRUE, map |-> MapSet(map, key, [count |-> 1, windowStart |-> t])]
        ELSE [withinLimit |-> map[key].count < effectiveLimit, map |-> map]

\* incrementRateCounter leaving the count of a live window as it is
incrementRateCounter_CountKept(map, employeeId, action, t) ==
    LET key == RateKey(employeeId, action)
    IN  IF WindowExpired(map, key, t)
        THEN MapSet(map, key, [count |-> 1, windowStart |-> t])
        ELSE map

\* incrementRateCounter at clock reading t: the map it leaves
incrementRateCounter(map, employeeId, action, t) ==
    LET key == RateKey(employeeId, action)
    IN  IF WindowExpired(map, key, t)
        THEN MapSet(map, key, [count |-> 1, windowStart |-> t])
        ELSE MapSet(map, key, [count |-> map[key].count + 1, windowStart |-> map[key].windowStart])

\* the flags and the limit before the loop over the matching policies
NoPolicySeen ==
    [hasDeny |-> FALSE, hasApprovalRequired |-> FALSE, hasAllow |-> FALSE,
     applicableRateLimit |-> None]

\* PolicyStep with each flag overwritten by the policy at hand, so that the
\* last policy returned decides
PolicyStep_LastWins(acc, policy) ==
    [ hasDeny |-> policy.permission = "deny",
      hasApprovalRequired |-> policy.permission = "approval_required",
      hasAllow |-> policy.permission = "allow",
      applicableRateLimit |->
          IF policy.rateLimit # None
          THEN IF acc.applicableRateLimit = None
               THEN policy.rateLimit
               ELSE Some(Min(The(acc.applicableRateLimit), The(policy.rateLimit)))
          ELSE acc.applicableRateLimit ]

\* PolicyStep keeping the first configured limit instead of the least
PolicyStep_FirstLimit(acc, policy) ==
    [ hasDeny |-> acc.hasDeny \/ policy.permission = "deny",
      hasApprovalRequired |-> acc.hasApprovalRequired \/ policy.permission = "approval_required",
      hasAllow |-> acc.hasAllow \/ policy.permission = "allow",
      applicableRateLimit |->
          IF policy.rateLimit # None /\ acc.applicableRateLimit = None
          THEN policy.rateLimit
          ELSE acc.applicableRateLimit ]

\* one turn of the loop over the matching policies
PolicyStep(acc, policy) ==
    [ hasDeny |-> acc.hasDeny \/ policy.permission = "deny",
      hasApprovalRequired |-> acc.hasApprovalRequired \/ policy.permission = "approval_required",
      hasAllow |-> acc.hasAllow \/ policy.permission = "allow",
      applicableRateLimit |->
          IF policy.rateLimit # None
          THEN IF acc.applicableRateLimit = None
               THEN policy.rateLimit
               ELSE Some(Min(The(acc.applicableRateLimit), The(policy.rateLimit)))
          ELSE acc.applicableRateLimit ]

\* the loop over the matching policies, in the order the store returned them
RECURSIVE CombinePolicies(_, _, _)
CombinePolicies(ps, i, acc) ==
    IF i > Len(ps) THEN acc ELSE CombinePolicies(ps, i + 1, PolicyStep(acc, ps[i]))

\* Branch allowing when no flag is set
Branch_FailOpen(c, withinLimit) ==
    IF c.hasDeny THEN "policy_denied"
    ELSE IF c.applicableRateLimit # None /\ ~withinLimit THEN "rate_limit_exceeded"
    ELSE IF c.hasApprovalRequired THEN "approval_requested"
    ELSE "policy_allowed"

\* Branch with the approval path taken before the answer of the rate-limit
\* check is looked at
Branch_ApprovalBeforeLimit(c, withinLimit) ==
    IF c.hasDeny THEN "policy_denied"
    ELSE IF c.hasApprovalRequired THEN "approval_requested"
    ELSE IF c.applicableRateLimit # None /\ ~withinLimit THEN "rate_limit_exceeded"
    ELSE IF c.hasAllow THEN "policy_allowed"
    ELSE "default_deny"

\* which return of evaluate a non-empty policy list ends in
Branch(c, withinLimit) ==
    IF c.hasDeny THEN "policy_denied"
    ELSE IF c.applicableRateLimit # None /\ ~withinLimit THEN "rate_limit_exceeded"
    ELSE IF c.hasApprovalRequired THEN "approval_requested"
    ELSE IF c.hasAllow THEN "policy_allowed"
    ELSE "default_deny"

\* JSON.stringify of a context object {env: ...}
JSONStringify(context) == "{\"env\":\"" \o context.env \o "\"}"

\* createApprovalRequest inserting only when the call came with a context
createApprovalRequest_OnlyWithContext(employeeId, action, context) ==
    approvalRequests' =
        IF context = None THEN approvalRequests
        ELSE Append(approvalRequests,
                [ employeeId |-> employeeId,
                  action     |-> action,
                  details    |-> JSONStringify(The(context)),
                  status     |-> "pending",
                  createdAt  |-> now,
                  resolvedAt |-> None ])

\* createApprovalRequest: insert a pending row
createApprovalRequest(employeeId, action, context) ==
    approvalRequests' = Append(approvalRequests,
        [ employeeId |-> employeeId,
          action     |-> action,
          details    |-> IF context = None THEN "" ELSE JSONStringify(The(context)),
          status     |-> "pending",
          createdAt  |-> now,
          resolvedAt |-> None ])

\* AutonomyBranch with the default case allowing instead of denying
AutonomyBranch_FailOpen(autonomyMode) ==
    IF autonomyMode = "restricted" THEN "autonomy_denied"
    ELSE IF autonomyMode = "supervised" THEN "autonomy_approval"
    ELSE "autonomy_allowed"

\* the branch of evaluateAutonomyFallback's switch
AutonomyBranch(autonomyMode) ==
    IF autonomyMode = "full" THEN "autonomy_allowed"
    ELSE IF autonomyMode = "supervised" THEN "autonomy_approval"
    ELSE "autonomy_denied"

\* the PolicyResult of each return of evaluate and evaluateAutonomyFallback
ResultOf(branch, employeeId, action, limit) ==
    CASE branch = "not_found" ->
            [allowed |-> FALSE, requiresApproval |-> FALSE,
             reason |-> "Employee " \o employeeId \o " not found"]
      [] branch = "policy_denied" ->
            [allowed |-> FALSE, requiresApproval |-> FALSE,
             reason |-> "Action \"" \o action \o "\" is explicitly denied by policy"]
      [] branch = "rate_limit_exceeded" ->
            [allowed |-> FALSE, requiresApproval |-> FALSE,
             reason |-> "Rate limit exceeded for \"" \o action \o "\" (max "
                            \o NumStr(The(limit)) \o " per minute)"]
      [] branch = "approval_requested" ->
            [allowed |-> FALSE, requiresApproval |-> TRUE,
             reason |-> "Action \"" \o action
                            \o "\" requires human approval. An approval request has been created."]
      [] branch = "policy_allowed" ->
            [allowed |-> TRUE, requiresApproval |-> FALSE,
             reason |-> "Action \"" \o action \o "\" is allowed by policy"]
      [] branch = "default_deny" ->
            [allowed |-> FALSE, requiresApproval |-> FALSE,
             reason |-> "No matching permission found; defaulting to deny"]
      [] branch = "autonomy_allowed" ->
            [allowed |-> TRUE, requiresApproval |-> FALSE,
             reason |-> "No explicit policy for \"" \o action
                            \o "\"; allowed under full autonomy mode"]
      [] branch = "autonomy_approval" ->
            [allowed |-> FALSE, requiresApproval |-> TRUE,
             reason |-> "No explicit policy for \"" \o action
                            \o "\"; supervised mode requires approval"]
      [] branch = "autonomy_denied" ->
            [allowed |-> FALSE, requiresApproval |-> FALSE,
             reason |-> "No explicit policy for \"" \o action
                            \o "\"; denied under restricted autonomy mode"]

\* the details string logAudit is given on each logging return
DetailsOf(branch, action, limit) ==
    CASE branch = "policy_denied" -> "Action \"" \o action \o "\" denied by explicit policy"
      [] branch = "rate_limit_exceeded" ->
            "Rate limit exceeded for \"" \o action \o "\" (limit: " \o NumStr(The(limit)) \o "/min)"
      [] branch = "approval_requested" -> "Approval requested for \"" \o action \o "\""
      [] branch = "policy_allowed" -> "Action \"" \o action \o "\" allowed by policy"
      [] branch = "autonomy_allowed" ->
            "No explicit policy for \"" \o action \o "\"; full autonomy mode allows by default"
      [] branch = "autonomy_approval" ->
            "No explicit policy for \"" \o action \o "\"; supervised mode requires approval"
      [] branch = "autonomy_denied" ->
            "No explicit policy for \"" \o action \o "\"; restricted mode denies by default"

\* logAudit: new AuditLogger().log(action, details, employeeId)
logAudit(action, details, employeeId) == log(action, details, employeeId)

\* the counter of a key, if the map holds one
CounterOf(map, key) == IF key \in DOMAIN map THEN Some(map[key]) ELSE None

\* rows from + 1 .. Len(rows): what an operation inserted into a table
RowsAfter(rows, from) == SubSeq(rows, from + 1, Len(rows))

\* the record of a returned evaluate in the history: the call, its result, and
\* what the call met and did: the policies that matched, the limit
\* checkRateLimit was called with (if it was called), the counter of the key
\* before the call, after the rate-limit step and at the return, the ledger
\* entries appended and the approval requests created
Returned(employeeId, action, context, branch, limitChecked, mapChecked) ==
    calls' = Append(calls,
        [ op |-> "evaluate", employeeId |-> employeeId, action |-> action,
          context |-> context, time |-> now, branch |-> branch,
          result |-> ResultOf(branch, employeeId, action, limitChecked),
          matched |-> findMany(employeeId, action),
          limitChecked |-> limitChecked,
          counterBefore |-> CounterOf(rateLimitMap, RateKey(employeeId, action)),
          counterChecked |-> CounterOf(mapChecked, RateKey(employeeId, action)),
          counterAfter |-> CounterOf(rateLimitMap', RateKey(employeeId, action)),
          appendedRows |-> RowsAfter(auditLog', Len(auditLog)),
          createdRows |-> RowsAfter(approvalRequests', Len(approvalRequests)) ])

\* evaluateAutonomyFallback: no policy matches
evaluateAutonomyFallback(autonomyMode, employeeId, action, context) ==
    LET branch == AutonomyBranch(autonomyMode)
    IN  /\ IF branch = "autonomy_approval"
           THEN createApprovalRequest(employeeId, action, context)
           ELSE UNCHANGED approvalRequests
        /\ logAudit(branch, DetailsOf(branch, action, None), employeeId)
        /\ UNCHANGED <<now, policies, rateLimitMap, inflight>>
        /\ Returned(employeeId, action, context, branch, None, rateLimitMap)

\* RateLimitConsulted with the limit checked before the deny flag is looked at
RateLimitConsulted_BeforeDeny(c) == c.applicableRateLimit # None

\* lines 101-115: checkRateLimit is called when no policy denies and some
\* policy sets a limit
RateLimitConsulted(c) == ~c.hasDeny /\ c.applicableRateLimit # None

\* PolicyEngine.evaluate, from the call to its return
evaluate(employeeId, action, context) ==
    LET employee == findUnique(employeeId)
    IN  IF employee = None
        THEN /\ UNCHANGED <<now, policies, rateLimitMap, approvalRequests, auditLog, inflight>>
             /\ Returned(employeeId, action, context, "not_found", None, rateLimitMap)
        ELSE IF findMany(employeeId, action) = {}
            THEN evaluateAutonomyFallback(The(employee).autonomyMode, employeeId, action, context)
            ELSE
              \* the flags and the limit the loop ends with, over the rows in
              \* each order the query may return them; each local is computed
              \* once: a one-element set fixes its value
              \E c \in {CombinePolicies(ps, 1, NoPolicySeen) :
                            ps \in Orderings(findMany(employeeId, action))} :
              \E check \in {IF RateLimitConsulted(c)
                            THEN checkRateLimit(rateLimitMap, employeeId, action,
                                                c.applicableRateLimit, now)
                            ELSE [withinLimit |-> TRUE, map |-> rateLimitMap]} :
              \E branch \in {Branch(c, check.withinLimit)} :
                  /\ IF branch = "approval_requested"
                     THEN createApprovalRequest(employeeId, action, context)
                     ELSE UNCHANGED approvalRequests
                  /\ IF branch = "default_deny"
                     THEN UNCHANGED auditLog
                     ELSE logAudit(branch, DetailsOf(branch, action, c.applicableRateLimit),
                                   employeeId)
                  /\ rateLimitMap' =
                        IF branch = "policy_allowed"
                        THEN incrementRateCounter(check.map, employeeId, action, now)
                        ELSE check.map
                  /\ UNCHANGED <<now, policies, inflight>>
                  /\ Returned(employeeId, action, context, branch,
                              IF RateLimitConsulted(c) THEN c.applicableRateLimit ELSE None,
                              check.map)

\* prisma.policy.findFirst({where: {employeeId, capability, permission}}):
\* the rows one of which it returns; null when there is none
findFirst(employeeId, capability, permission) ==
    {p \in policies : /\ p.employeeId = employeeId
                      /\ p.capability = capability
                      /\ p.permission = permission}

\* SameTeam with two missing teams taken for the same team
SameTeam_NullsEqual(fromEmployee, toEmployee) ==
    fromEmployee.teamId = toEmployee.teamId

\* the negation of the test of lines 226-230: both have a team, and it is the same
SameTeam(fromEmployee, toEmployee) ==
    /\ fromEmployee.teamId # None
    /\ toEmployee.teamId # None
    /\ fromEmployee.teamId = toEmployee.teamId

\* the return path checkInterAgentPermission takes
InterAgentBranch(fromId, toId, action) ==
    IF findUnique(fromId) = None \/ findUnique(toId) = None THEN "not_found"
    ELSE IF /\ ~SameTeam(The(findUnique(fromId)), The(findUnique(toId)))
            /\ findFirst(fromId, "cross_team:" \o action, "allow") = {}
        THEN "cross_team_denied"
    ELSE IF findFirst(fromId, "inter_agent:" \o action, "allow") = {} THEN "no_policy"
    ELSE "inter_agent_allowed"

\* the details of the ledger entry of a return path
InterAgentDetails(branch, fromId, toId, action) ==
    CASE branch = "cross_team_denied" ->
            "Cross-team action \"" \o action \o "\" from " \o fromId \o " to " \o toId \o " denied"
      [] branch = "no_policy" ->
            "Inter-agent action \"" \o action \o "\" from " \o fromId \o " to " \o toId
                \o " denied (no policy)"
      [] branch = "inter_agent_allowed" ->
            "Inter-agent action \"" \o action \o "\" from " \o fromId \o " to " \o toId \o " allowed"

\* InterAgentTag with every entry tagged as a denial
InterAgentTag_AlwaysDenied(branch) == "inter_agent_denied"

\* the action of the ledger entry of a return path, lines 241, 260 and 268
InterAgentTag(branch) ==
    IF branch = "inter_agent_allowed" THEN "inter_agent_allowed" ELSE "inter_agent_denied"

\* PolicyEngine.checkInterAgentPermission, from the call to its return; the
\* record keeps the capabilities fromId was allowed when the call was made
checkInterAgentPermission(fromId, toId, action) ==
    \E branch \in {InterAgentBranch(fromId, toId, action)} :
        /\ IF branch = "not_found"
           THEN UNCHANGED auditLog
           ELSE logAudit(InterAgentTag(branch),
                         InterAgentDetails(branch, fromId, toId, action), fromId)
        /\ UNCHANGED <<now, policies, rateLimitMap, approvalRequests, inflight>>
        /\ calls' = Append(calls,
                [ op |-> "checkInterAgentPermission", fromId |-> fromId, toId |-> toId,
                  action |-> action, time |-> now, branch |-> branch,
                  result |-> (branch = "inter_agent_allowed"),
                  allowedTo |-> {p.capability : p \in {q \in policies :
                                    q.employeeId = fromId /\ q.permission = "allow"}},
                  appendedRows |-> RowsAfter(auditLog', Len(auditLog)) ])

-----------------------------------------------------------------------------
(* Operations of the callers *)

\* auditLogger.log(action, details, employeeId), called on its own
Log(action, details, employeeId) ==
    /\ log(action, details, employeeId)
    /\ UNCHANGED <<now, policies, rateLimitMap, approvalRequests, inflight>>
    /\ calls' = Append(calls, [op |-> "log", action |-> action, details |-> details,
                               time |-> now, row |-> Len(auditLog')])

\* POST /api/audit {action: "verify"}: auditLogger.verifyChain()
VerifyChain ==
    /\ \E r \in VerifyResults(auditLog) :
        calls' = Append(calls, [op |-> "verifyChain", time |-> now, result |-> r])
    /\ UNCHANGED <<now, policies, rateLimitMap, approvalRequests, auditLog, inflight>>

\* POST /api/policies with a body the handler accepts for an employee that
\* exists: insert the row, then log policy_created
PolicyPOST(employeeId, capability, permission, rateLimit) ==
    /\ employeeId # "" /\ capability # ""
    /\ findUnique(employeeId) # None
    /\ policies' = policies \cup
            { [ employeeId |-> employeeId, capability |-> capability,
                permission |-> IF permission = "" THEN "allow" ELSE permission,
                rateLimit  |-> IF rateLimit = Some(0) THEN None ELSE rateLimit ] }
    /\ log("policy_created",
           "Created policy: \"" \o capability \o "\" set to \""
               \o (IF permission = "" THEN "allow" ELSE permission)
               \o "\" for employee \"" \o The(findUnique(employeeId)).name \o "\"",
           employeeId)
    /\ UNCHANGED <<now, rateLimitMap, approvalRequests, inflight>>
    /\ calls' = Append(calls, [op |-> "policyPOST", employeeId |-> employeeId,
                               capability |-> capability, time |-> now])

\* the slots of the requests being served, and a slot serving none
Requests == 1..MaxRequests

Idle == [pc |-> "idle"]

\* the store and the process right after start: no counter, no request, no entry
InitStore ==
    /\ now = 0
    /\ rateLimitMap = [k \in {} |-> 0]
    /\ approvalRequests = <<>>
    /\ auditLog = <<>>
    /\ calls = <<>>
    /\ inflight = [r \in Requests |-> Idle]

\* policy rows for one capability: one per employee in emps and template in T
StoreOf(T, emps, capability) ==
    { [employeeId |-> e, capability |-> capability,
       permission |-> t.permission, rateLimit |-> t.rateLimit] : e \in emps, t \in T }

\* permission is a free TEXT column: the three the engine knows and one it does not
Permissions == {"allow", "deny", "approval_required", "read_only"}

Contexts == {None, Some([env |-> "prod"])}

-----------------------------------------------------------------------------
(* Spec: every kind of subject and an unknown one, two capabilities, with   *)
(* and without context, over a store with one policy of each permission     *)

\* operations in a run of Spec
MaxCalls == 2

\* the ids evaluate is called with: every employee and one id no row has
SubjectIds == EmployeeIds \cup {"emp-ghost"}

\* the capabilities evaluate is called with; no policy names the second
Actions == {"deploy", "send_email"}

Init ==
    /\ InitStore
    /\ policies =
        { [employeeId |-> "emp-maya", capability |-> "deploy",
           permission |-> "allow", rateLimit |-> Some(1)],
          [employeeId |-> "emp-emma", capability |-> "deploy",
           permission |-> "deny", rateLimit |-> None],
          [employeeId |-> "emp-alex", capability |-> "deploy",
           permission |-> "approval_required", rateLimit |-> Some(5)],
          [employeeId |-> "emp-sentinel", capability |-> "deploy",
           permission |-> "read_only", rateLimit |-> None] }

Next ==
    \/ Tick
    \/ /\ Len(calls) < MaxCalls
       /\ \E e \in SubjectIds, a \in Actions, ctx \in Contexts : evaluate(e, a, ctx)

Spec == Init /\ [][Next]_vars

-----------------------------------------------------------------------------
(* SpecRate: one employee and one capability, every small set of matching   *)
(* policies, calls spread over the window and past it; a deny policy may    *)
(* be added while counters exist                                            *)

\* evaluate calls and policy creations in a run of SpecRate
MaxRateCalls == 3

\* the greatest rateLimit of a policy row in SpecRate
MaxLimit == 2

\* the rateLimit of a policy row in SpecRate: none, the least, the greatest
RateLimits == {None, Some(1), Some(MaxLimit)}

InitRate ==
    /\ InitStore
    /\ \E T \in SUBSET [permission : Permissions, rateLimit : RateLimits] :
        /\ Cardinality(T) <= MaxPolicies
        /\ policies = StoreOf(T, {"emp-alex"}, "deploy")

NextRate ==
    \/ Len(calls) < MaxRateCalls /\ Tick
    \/ Len(calls) < MaxRateCalls /\ evaluate("emp-alex", "deploy", None)
    \/ /\ Len(calls) < MaxRateCalls
       /\ \A p \in policies : p.permission # "deny"
       /\ PolicyPOST("emp-alex", "deploy", "deny", None)

SpecRate == InitRate /\ [][NextRate]_vars

-----------------------------------------------------------------------------
(* SpecScenario: the seeded policy of emp-alex, deploy needs approval, at   *)
(* most 5 per minute                                                        *)

\* evaluate calls in a run of SpecScenario
MaxScenarioCalls == 6

InitScenario ==
    /\ InitStore
    /\ policies = { [employeeId |-> "emp-alex", capability |-> "deploy",
                     permission |-> "approval_required", rateLimit |-> Some(5)] }

NextScenario ==
    \/ Tick
    \/ Len(calls) < MaxScenarioCalls /\ evaluate("emp-alex", "deploy", None)

SpecScenario == InitScenario /\ [][NextScenario]_vars

-----------------------------------------------------------------------------
(* SpecLedger: appends and verifications of the ledger, one at a time       *)

\* what the callers of auditLogger.log pass: <<action, details, employeeId>>
LogInputs ==
    { <<"test.action", "Test details", "emp-emma">>,
      <<"action.1", "First action", "">>,
      <<"action.2", "Second action", "">> }

\* operations in a run of SpecLedger
MaxAppends == 3

InitLedger == InitStore /\ policies = {}

NextLedger ==
    \/ Tick
    \/ Len(calls) < MaxAppends /\ \E in \in LogInputs : Log(in[1], in[2], in[3])
    \/ Len(calls) < MaxAppends /\ VerifyChain

SpecLedger == InitLedger /\ [][NextLedger]_vars

-----------------------------------------------------------------------------
(* SpecTamper: SpecLedger with one row of the AuditLog table edited once    *)
(* behind the logger's back, its hash and previousHash left as stored       *)

\* the values an edit writes into a field
TamperValues(field) ==
    CASE field = "action" -> {"action.9", "action.1|First action"}
      [] field = "details" -> {"TAMPERED", ""}
      [] field = "timestamp" -> Times

\* an edit of one field of row i, as the test 'should detect tampered chain'
\* makes; validBefore records whether verifyChain could only answer valid
Tamper(i, field, value) ==
    /\ i \in 1..Len(auditLog)
    /\ \A j \in 1..Len(calls) : calls[j].op # "tamper"
    /\ value # auditLog[i][field]
    /\ auditLog' = [auditLog EXCEPT ![i][field] = value]
    /\ UNCHANGED <<now, policies, rateLimitMap, approvalRequests, inflight>>
    /\ calls' = Append(calls,
            [ op |-> "tamper", row |-> i, field |-> field, time |-> now,
              validBefore |-> VerifyResults(auditLog) = {[valid |-> TRUE, brokenAt |-> None]} ])

\* operations in a run of SpecTamper
MaxTamperCalls == 4

NextTamper ==
    \/ Tick
    \/ Len(calls) < MaxTamperCalls /\ \E in \in LogInputs : Log(in[1], in[2], in[3])
    \/ Len(calls) < MaxTamperCalls /\ VerifyChain
    \/ /\ Len(calls) < MaxTamperCalls
       /\ \E i \in 1..Len(auditLog), field \in {"action", "details", "timestamp"} :
            \E value \in TamperValues(field) : Tamper(i, field, value)

SpecTamper == InitLedger /\ [][NextTamper]_vars

-----------------------------------------------------------------------------
(* SpecBroken: appends of one caller, verifications, and one edit of the    *)
(* details or the timestamp of a stored row                                 *)

\* operations in a run of SpecBroken
MaxBrokenCalls == 4

NextBroken ==
    \/ Len(calls) < MaxBrokenCalls /\ Tick
    \/ Len(calls) < MaxBrokenCalls /\ Log("action.1", "First action", "")
    \/ Len(calls) < MaxBrokenCalls /\ VerifyChain
    \/ /\ Len(calls) < MaxBrokenCalls
       /\ \E i \in 1..Len(auditLog), field \in {"details", "timestamp"} :
            \E value \in TamperValues(field) : Tamper(i, field, value)

SpecBroken == InitLedger /\ [][NextBroken]_vars

\* checkRateLimit(employeeId, action, limit) called on its own; limit may be
\* left out
CheckRateLimit(employeeId, action, limit) ==
    /\ \E r \in {checkRateLimit(rateLimitMap, employeeId, action, limit, now)} :
        /\ rateLimitMap' = r.map
        /\ calls' = Append(calls,
                [ op |-> "checkRateLimit", employeeId |-> employeeId, action |-> action,
                  limit |-> limit, time |-> now, result |-> r.withinLimit,
                  counterBefore |-> CounterOf(rateLimitMap, RateKey(employeeId, action)),
                  counterAfter |-> CounterOf(r.map, RateKey(employeeId, action)) ])
    /\ UNCHANGED <<now, policies, approvalRequests, auditLog, inflight>>

-----------------------------------------------------------------------------
(* Handlers served concurrently: a handler runs up to its next await, and   *)
(* the handlers of other requests run in between                            *)

\* the slot r takes the value rec
Serve(r, rec) == inflight' = [inflight EXCEPT ![r] = rec]

\* the requests being served
Busy == {r \in Requests : inflight[r] # Idle}

\* the slot a new request is served in: the first that serves none
FreeSlot(r) == inflight[r] = Idle /\ \A q \in Requests : q < r => inflight[q] # Idle

\* a request arrives for auditLogger.log(action, details, employeeId)
LogCall(r, action, details, employeeId) ==
    /\ FreeSlot(r)
    /\ Serve(r, [pc |-> "log.getLastHash", handler |-> "log", action |-> action,
                 details |-> details, employeeId |-> employeeId])
    /\ UNCHANGED <<now, policies, rateLimitMap, approvalRequests, auditLog, calls>>

\* AuditLogger.log, line 56: the query of getLastHash is answered
LogGetLastHash(r) ==
    /\ inflight[r].pc = "log.getLastHash"
    /\ \E previousHash \in getLastHash(auditLog) :
        Serve(r, [inflight[r] EXCEPT !.pc = "log.create"] @@ [previousHash |-> previousHash])
    /\ UNCHANGED <<now, policies, rateLimitMap, approvalRequests, auditLog, calls>>

\* what the handler of slot r returns to once its log call has returned: the
\* record of the operation in the history
ReturnOf(r) ==
    IF inflight[r].handler = "log"
    THEN [op |-> "log", action |-> inflight[r].action, details |-> inflight[r].details,
          time |-> now, row |-> Len(auditLog) + 1]
    ELSE [op |-> "resolve", id |-> inflight[r].id, status |-> inflight[r].status,
          code |-> 200, time |-> now, existing |-> Some(inflight[r].existing)]

\* AuditLogger.log, lines 57-71: the clock is read, the hash computed and the
\* row inserted with the previousHash read before
LogCreate(r) ==
    /\ inflight[r].pc = "log.create"
    /\ inflight[r].handler \in {"log", "resolve"}
    /\ auditLog' = Append(auditLog,
            NewEntry(inflight[r].previousHash, inflight[r].action, inflight[r].details,
                     inflight[r].employeeId, now))
    /\ calls' = Append(calls, ReturnOf(r))
    /\ Serve(r, Idle)
    /\ UNCHANGED <<now, policies, rateLimitMap, approvalRequests>>

\* prisma.approvalRequest.findUnique({where: {id}}); the id of a request is
\* its row number
findApproval(id) ==
    IF id \in 1..Len(approvalRequests) THEN Some(approvalRequests[id]) ELSE None

\* ResolveCode without the test of the status found
ResolveCode_NoConflict(id, status) ==
    IF status \notin {"approved", "denied"} THEN 400
    ELSE IF findApproval(id) = None THEN 404
    ELSE 0

\* PUT /api/approvals/[id], lines 16-40: the status the handler answers with
\* before it writes anything, 0 when it goes on to the update
ResolveCode(id, status) ==
    IF status \notin {"approved", "denied"} THEN 400
    ELSE IF findApproval(id) = None THEN 404
    ELSE IF The(findApproval(id)).status # "pending" THEN 409
    ELSE 0

\* PUT /api/approvals/[id] with body {status}, lines 12-40: the body is
\* checked, the request read, and the handler answers or goes on
PutFindUnique(r, id, status) ==
    /\ FreeSlot(r)
    /\ \E code \in {ResolveCode(id, status)} :
        IF code # 0
        THEN /\ calls' = Append(calls,
                    [op |-> "resolve", id |-> id, status |-> status, code |-> code,
                     time |-> now, existing |-> findApproval(id)])
             /\ UNCHANGED inflight
        ELSE /\ Serve(r, [pc |-> "put.update", handler |-> "resolve", id |-> id,
                          status |-> status, existing |-> The(findApproval(id))])
             /\ UNCHANGED calls
    /\ UNCHANGED <<now, policies, rateLimitMap, approvalRequests, auditLog>>

\* lines 42-57: the row is updated whatever its status is by now, and
\* auditLogger.log is called; the history keeps what the update overwrote
PutUpdate(r) ==
    /\ inflight[r].pc = "put.update"
    /\ approvalRequests' =
            [approvalRequests EXCEPT ![inflight[r].id] =
                [@ EXCEPT !.status = inflight[r].status, !.resolvedAt = Some(now)]]
    /\ calls' = Append(calls,
            [op |-> "approvalRequest.update", id |-> inflight[r].id, time |-> now,
             from |-> approvalRequests[inflight[r].id].status,
             to |-> inflight[r].status,
             resolvedAtBefore |-> approvalRequests[inflight[r].id].resolvedAt])
    /\ Serve(r, [inflight[r] EXCEPT !.pc = "log.getLastHash"] @@
                [ action |-> "approval_" \o inflight[r].status,
                  details |-> "Approval request for \"" \o inflight[r].existing.action
                        \o "\" was " \o inflight[r].status \o " (employee: \""
                        \o The(findUnique(inflight[r].existing.employeeId)).name \o "\")",
                  employeeId |-> inflight[r].existing.employeeId ])
    /\ UNCHANGED <<now, policies, rateLimitMap, auditLog>>

\* the record of an evaluate that has made its decision, before the awaits
\* that follow it
Decided(employeeId, action, context, branch, limitChecked, mapChecked) ==
    [ handler |-> "evaluate", employeeId |-> employeeId, action |-> action,
      context |-> context, time |-> now, branch |-> branch,
      limitChecked |-> limitChecked,
      matched |-> findMany(employeeId, action),
      counterBefore |-> CounterOf(rateLimitMap, RateKey(employeeId, action)),
      counterChecked |-> CounterOf(mapChecked, RateKey(employeeId, action)),
      inFlight |-> Cardinality(Busy) + 1,
      createdRows |-> <<>>,
      details |-> IF branch \in {"not_found", "default_deny"} THEN ""
                  ELSE DetailsOf(branch, action, limitChecked) ]

\* the record of an evaluate in the history when it returns
EvalRecord(slot, counterAfter, appendedRows) ==
    [ op |-> "evaluate", employeeId |-> slot.employeeId, action |-> slot.action,
      context |-> slot.context, time |-> slot.time, branch |-> slot.branch,
      result |-> ResultOf(slot.branch, slot.employeeId, slot.action, slot.limitChecked),
      matched |-> slot.matched, limitChecked |-> slot.limitChecked,
      counterBefore |-> slot.counterBefore, counterChecked |-> slot.counterChecked,
      counterAfter |-> counterAfter, appendedRows |-> appendedRows,
      createdRows |-> slot.createdRows, inFlight |-> slot.inFlight ]

\* the next await of an evaluate that has decided: createApprovalRequest on
\* the approval paths, logAudit on the others
AfterDecision(branch) ==
    IF branch \in {"approval_requested", "autonomy_approval"}
    THEN "eval.createApproval" ELSE "log.getLastHash"

\* evaluate(employeeId, action, context) up to its first write, lines 49-129
\* and 283-289: the employee and the matching policies are read, the loop
\* runs, checkRateLimit is called and the return path is fixed.  The two
\* reads are of tables that no handler served beside it writes, so that the
\* step stands at the instant the second is answered; checkRateLimit follows
\* it with no await in between.  The not-found and default-deny paths return
\* at once.
EvalCall(r, employeeId, action, context) ==
    /\ FreeSlot(r)
    /\ IF findUnique(employeeId) = None
       THEN /\ calls' = Append(calls,
                    EvalRecord(Decided(employeeId, action, context, "not_found",
                                       None, rateLimitMap),
                               CounterOf(rateLimitMap, RateKey(employeeId, action)), <<>>))
            /\ UNCHANGED <<inflight, rateLimitMap>>
       ELSE IF findMany(employeeId, action) = {}
       THEN \E branch \in {AutonomyBranch(The(findUnique(employeeId)).autonomyMode)} :
                /\ Serve(r, [pc |-> AfterDecision(branch)] @@
                            Decided(employeeId, action, context, branch, None, rateLimitMap))
                /\ UNCHANGED <<rateLimitMap, calls>>
       ELSE \E c \in {CombinePolicies(ps, 1, NoPolicySeen) :
                            ps \in Orderings(findMany(employeeId, action))} :
            \E check \in {IF RateLimitConsulted(c)
                          THEN checkRateLimit(rateLimitMap, employeeId, action,
                                              c.applicableRateLimit, now)
                          ELSE [withinLimit |-> TRUE, map |-> rateLimitMap]} :
            \E branch \in {Branch(c, check.withinLimit)} :
            \E limitChecked \in {IF RateLimitConsulted(c)
                                 THEN c.applicableRateLimit ELSE None} :
                /\ rateLimitMap' = check.map
                /\ IF branch = "default_deny"
                   THEN /\ calls' = Append(calls,
                                EvalRecord(Decided(employeeId, action, context, branch,
                                                   limitChecked, check.map),
                                           CounterOf(check.map, RateKey(employeeId, action)),
                                           <<>>))
                        /\ UNCHANGED inflight
                   ELSE /\ Serve(r, [pc |-> AfterDecision(branch)] @@
                                    Decided(employeeId, action, context, branch,
                                            limitChecked, check.map))
                        /\ UNCHANGED calls
    /\ UNCHANGED <<now, policies, approvalRequests, auditLog>>

\* lines 133 and 303: the ApprovalRequest row is inserted
EvalCreateApproval(r) ==
    /\ inflight[r].pc = "eval.createApproval"
    /\ createApprovalRequest(inflight[r].employeeId, inflight[r].action, inflight[r].context)
    /\ Serve(r, [inflight[r] EXCEPT !.pc = "log.getLastHash",
                                    !.createdRows = RowsAfter(approvalRequests',
                                                              Len(approvalRequests))])
    /\ UNCHANGED <<now, policies, rateLimitMap, auditLog, calls>>

\* the row of logAudit is inserted and evaluate runs to its return: on the
\* allow path incrementRateCounter is called, lines 148-159
EvalReturn(r) ==
    /\ inflight[r].pc = "log.create"
    /\ inflight[r].handler = "evaluate"
    /\ auditLog' = Append(auditLog,
            NewEntry(inflight[r].previousHash, inflight[r].branch, inflight[r].details,
                     inflight[r].employeeId, now))
    /\ rateLimitMap' =
            IF inflight[r].branch = "policy_allowed"
            THEN incrementRateCounter(rateLimitMap, inflight[r].employeeId,
                                      inflight[r].action, now)
            ELSE rateLimitMap
    /\ calls' = Append(calls,
            EvalRecord(inflight[r],
                       CounterOf(rateLimitMap',
                                 RateKey(inflight[r].employeeId, inflight[r].action)),
                       RowsAfter(auditLog', Len(auditLog))))
    /\ Serve(r, Idle)
    /\ UNCHANGED <<now, policies, approvalRequests>>

\* the store call a handler is waiting for fails: evaluate lets the error
\* through to its caller, the PUT handler catches it and answers 500 (lines
\* 60-66); what the handler wrote before stays written
StoreFails(r) ==
    /\ inflight[r] # Idle
    /\ calls' = Append(calls,
            [op |-> "failed", handler |-> inflight[r].handler, pc |-> inflight[r].pc,
             time |-> now])
    /\ Serve(r, Idle)
    /\ UNCHANGED <<now, policies, rateLimitMap, approvalRequests, auditLog>>

-----------------------------------------------------------------------------
(* SpecFork: log calls of several requests interleaved, and verifications   *)

\* log calls and verifications in a run of SpecFork
MaxForkCalls == 3

NextFork ==
    \/ Len(calls) < MaxForkCalls /\ Tick
    \/ /\ Len(calls) + Cardinality(Busy) < MaxForkCalls
       /\ \E r \in Requests, in \in LogInputs : LogCall(r, in[1], in[2], in[3])
    \/ \E r \in Requests : LogGetLastHash(r)
    \/ \E r \in Requests : LogCreate(r)
    \/ Len(calls) + Cardinality(Busy) < MaxForkCalls /\ VerifyChain

SpecFork == InitLedger /\ [][NextFork]_vars

-----------------------------------------------------------------------------
(* SpecTrust: one agent invoking another, over every small set of           *)
(* cross_team: and inter_agent: policies of two agents                      *)

\* calls of checkInterAgentPermission in a run of SpecTrust
MaxTrustCalls == 1

\* the policy rows a store of SpecTrust is drawn from
TrustRows ==
    [ employeeId : {"emp-maya", "emp-sentinel"},
      capability : {"cross_team:deploy", "inter_agent:deploy"},
      permission : {"allow", "deny"},
      rateLimit  : {None} ]

InitTrust ==
    /\ InitStore
    /\ \E T \in SUBSET TrustRows : Cardinality(T) <= MaxPolicies /\ policies = T

\* the decision reads no clock: the calls are made at one instant
NextTrust ==
    /\ Len(calls) < MaxTrustCalls
    /\ \E fromId \in SubjectIds, toId \in SubjectIds, action \in Actions :
        checkInterAgentPermission(fromId, toId, action)

SpecTrust == InitTrust /\ [][NextTrust]_vars

-----------------------------------------------------------------------------
(* SpecResolve: the approval request created by the fallback of a           *)
(* supervised employee, and PUT requests for it served concurrently; the    *)
(* clock moves between requests                                             *)

\* the ids PUT is called with: the first request created and one no row has
ApprovalIds == {1, 2}

\* PUT requests in a run of SpecResolve
MaxResolveCalls == 2

\* the status a PUT body asks for
Outcomes == {"approved", "denied", "pending"}

\* the PUT requests answered so far, and those made
ResolveAnswers == Cardinality({i \in 1..Len(calls) : calls[i].op = "resolve"})

ResolveCalls == ResolveAnswers + Cardinality(Busy)

NextResolve ==
    \/ ResolveAnswers < MaxResolveCalls /\ Busy = {} /\ Tick
    \/ approvalRequests = <<>> /\ evaluate("emp-emma", "send_email", None)
    \/ /\ ResolveCalls < MaxResolveCalls
       /\ \E r \in Requests, id \in ApprovalIds, status \in Outcomes :
            PutFindUnique(r, id, status)
    \/ \E r \in Requests : PutUpdate(r)
    \/ \E r \in Requests : LogGetLastHash(r)
    \/ \E r \in Requests : LogCreate(r)

SpecResolve == InitLedger /\ [][NextResolve]_vars

-----------------------------------------------------------------------------
(* SpecCheck: checkRateLimit called on its own, between evaluate calls      *)
(* that an allow policy lets through                                        *)

\* calls in a run of SpecCheck
MaxCheckCalls == 3

InitCheck ==
    /\ InitStore
    /\ policies = { [employeeId |-> "emp-alex", capability |-> "deploy",
                     permission |-> "allow", rateLimit |-> Some(MaxLimit)] }

NextCheck ==
    \/ Len(calls) < MaxCheckCalls /\ Tick
    \/ /\ Len(calls) < MaxCheckCalls
       /\ \E action \in Actions, limit \in RateLimits :
            CheckRateLimit("emp-alex", action, limit)
    \/ Len(calls) < MaxCheckCalls /\ evaluate("emp-alex", "deploy", None)

SpecCheck == InitCheck /\ [][NextCheck]_vars

-----------------------------------------------------------------------------
(* SpecRace: evaluate calls for one key under an allow policy with a limit, *)
(* served concurrently                                                      *)

\* evaluate calls in a run of SpecRace
MaxRaceCalls == 3

\* one allow policy, with the least or the greatest limit
InitRace ==
    /\ InitStore
    /\ \E n \in {1, MaxLimit} :
        policies = { [employeeId |-> "emp-alex", capability |-> "deploy",
                      permission |-> "allow", rateLimit |-> Some(n)] }

\* the step of the clock takes a counter past the end of its window
ExpiresWindow ==
    \E key \in DOMAIN rateLimitMap :
        /\ now - rateLimitMap[key].windowStart <= RATE_LIMIT_WINDOW_MS
        /\ now' - rateLimitMap[key].windowStart > RATE_LIMIT_WINDOW_MS

\* while requests are in flight the clock is followed only over the end of a
\* window
NextRace ==
    \/ /\ Len(calls) < MaxRaceCalls
       /\ Tick
       /\ Busy = {} \/ ExpiresWindow
    \/ /\ Len(calls) + Cardinality(Busy) < MaxRaceCalls
       /\ \E r \in Requests : EvalCall(r, "emp-alex", "deploy", None)
    \/ \E r \in Requests : LogGetLastHash(r)
    \/ \E r \in Requests : EvalReturn(r)

SpecRace == InitRace /\ [][NextRace]_vars

-----------------------------------------------------------------------------
(* SpecCore: the operations of the core side by side: evaluate,             *)
(* checkInterAgentPermission, log, verifyChain, getLastHash, and PUT        *)
(* requests resolving the approval requests, served concurrently            *)

\* auditLogger.getLastHash(), called on its own
GetLastHash ==
    /\ \E h \in getLastHash(auditLog) :
        calls' = Append(calls, [op |-> "getLastHash", time |-> now, result |-> h])
    /\ UNCHANGED <<now, policies, rateLimitMap, approvalRequests, auditLog, inflight>>

\* operations in a run of SpecCore
MaxCoreCalls == 3

\* the operations made and being served
CoreCalls ==
    Cardinality({i \in 1..Len(calls) : calls[i].op # "approvalRequest.update"})
        + Cardinality(Busy)

\* the seeded policies, and maya allowed to invoke deploy on another agent
InitCore ==
    /\ InitStore
    /\ policies =
        { [employeeId |-> "emp-maya", capability |-> "deploy",
           permission |-> "allow", rateLimit |-> Some(1)],
          [employeeId |-> "emp-alex", capability |-> "deploy",
           permission |-> "approval_required", rateLimit |-> Some(5)],
          [employeeId |-> "emp-maya", capability |-> "inter_agent:deploy",
           permission |-> "allow", rateLimit |-> None] }

\* the clock is followed from one millisecond to the next, between requests
NextCore ==
    \/ CoreCalls < MaxCoreCalls /\ Busy = {} /\ Tick /\ now' = now + 1
    \/ /\ CoreCalls < MaxCoreCalls
       /\ \E e \in {"emp-maya", "emp-alex"} : evaluate(e, "deploy", None)
    \/ /\ CoreCalls < MaxCoreCalls
       /\ checkInterAgentPermission("emp-maya", "emp-emma", "deploy")
    \/ CoreCalls < MaxCoreCalls /\ Log("test.action", "Test details", "emp-emma")
    \/ CoreCalls < MaxCoreCalls /\ VerifyChain
    \/ CoreCalls < MaxCoreCalls /\ GetLastHash
    \/ /\ CoreCalls < MaxCoreCalls
       /\ \E r \in Requests, status \in {"approved", "denied"} : PutFindUnique(r, 1, status)
    \/ \E r \in Requests : PutUpdate(r)
    \/ \E r \in Requests : LogGetLastHash(r)
    \/ \E r \in Requests : LogCreate(r)

SpecCore == InitCore /\ [][NextCore]_vars

-----------------------------------------------------------------------------
(* SpecDefault: an employee of full autonomy and one capability, over every *)
(* small set of matching policies, the empty one and those of a permission  *)
(* the engine does not know among them                                      *)

\* evaluate calls in a run of SpecDefault
MaxDefaultCalls == 2

InitDefault ==
    /\ InitStore
    /\ \E T \in SUBSET [permission : Permissions, rateLimit : RateLimits] :
        /\ Cardinality(T) <= MaxPolicies
        /\ policies = StoreOf(T, {"emp-maya"}, "deploy")

NextDefault ==
    \/ Len(calls) < MaxDefaultCalls /\ Tick
    \/ Len(calls) < MaxDefaultCalls /\ evaluate("emp-maya", "deploy", None)

SpecDefault == InitDefault /\ [][NextDefault]_vars

-----------------------------------------------------------------------------
(* SpecOutage: evaluate calls of a supervised employee without policy and   *)
(* PUT requests for the approval requests they create, with store calls     *)
(* that may fail                                                            *)

\* evaluate calls and PUT requests in a run of SpecOutage
MaxOutageCalls == 3

\* the operations answered, failed or being served
OutageCalls ==
    Cardinality({i \in 1..Len(calls) : calls[i].op # "approvalRequest.update"})
        + Cardinality(Busy)

NextOutage ==
    \/ OutageCalls < MaxOutageCalls /\ Busy = {} /\ Tick /\ now' = now + 1
    \/ /\ OutageCalls < MaxOutageCalls
       /\ \E r \in Requests : EvalCall(r, "emp-emma", "send_email", None)
    \/ \E r \in Requests : EvalCreateApproval(r)
    \/ \E r \in Requests : EvalReturn(r)
    \/ /\ OutageCalls < MaxOutageCalls
       /\ \E r \in Requests, status \in {"approved", "denied"} : PutFindUnique(r, 1, status)
    \/ \E r \in Requests : PutUpdate(r)
    \/ \E r \in Requests : LogGetLastHash(r)
    \/ \E r \in Requests : LogCreate(r)
    \/ \E r \in Requests : StoreFails(r)

SpecOutage == InitLedger /\ [][NextOutage]_vars

-----------------------------------------------------------------------------
(* SpecKeys: checkRateLimit for subjects and actions with and without the   *)
(* ':' of the capability prefixes, beside evaluate calls under an allow     *)
(* policy for a prefixed capability                                         *)

\* calls in a run of SpecKeys
MaxKeyCalls == 3

\* the subject ids and the actions checkRateLimit is called with
KeySubjects == {"emp-alex", "emp-alex:cross_team"}

KeyActions == {"deploy", "cross_team:deploy"}

InitKeys ==
    /\ InitStore
    /\ policies = { [employeeId |-> "emp-alex", capability |-> "cross_team:deploy",
                     permission |-> "allow", rateLimit |-> Some(MaxLimit)] }

NextKeys ==
    \/ Len(calls) < MaxKeyCalls /\ Tick
    \/ /\ Len(calls) < MaxKeyCalls
       /\ \E employeeId \in KeySubjects, action \in KeyActions :
            CheckRateLimit(employeeId, action, Some(MaxLimit))
    \/ Len(calls) < MaxKeyCalls /\ evaluate("emp-alex", "cross_team:deploy", None)

SpecKeys == InitKeys /\ [][NextKeys]_vars

-----------------------------------------------------------------------------
(* SpecSequential: the evaluate calls of SpecRace made one at a time, the   *)
(* clock moving between and within the calls                                *)

\* evaluate calls in a run of SpecSequential
MaxSequentialCalls == 3

NextSequential ==
    \/ Len(calls) < MaxSequentialCalls /\ Tick
    \/ /\ Len(calls) < MaxSequentialCalls
       /\ Busy = {}
       /\ \E r \in Requests : EvalCall(r, "emp-alex", "deploy", None)
    \/ \E r \in Requests : LogGetLastHash(r)
    \/ \E r \in Requests : EvalReturn(r)

SpecSequential == InitRace /\ [][NextSequential]_vars

-----------------------------------------------------------------------------
(* Vocabulary of the properties *)

\* the evaluate calls of the history, in the order they returned
EvaluateCalls == SelectSeq(calls, LAMBDA c : c.op = "evaluate")

HasPermission(ps, permission) == \E p \in ps : p.permission = permission

\* the configured (non-null) limits of a set of policy rows
ConfiguredLimits(ps) == {The(p.rateLimit) : p \in {q \in ps : q.rateLimit # None}}

\* the least configured limit of a set of policy rows, if any is configured
MinimumLimit(ps) ==
    IF ConfiguredLimits(ps) = {} THEN None
    ELSE Some(CHOOSE m \in ConfiguredLimits(ps) : \A x \in ConfiguredLimits(ps) : m <= x)

\* the reason text of a rate-limit denial
RateLimitReason(action, n) ==
    "Rate limit exceeded for \"" \o action \o "\" (max " \o NumStr(n) \o " per minute)"

\* the autonomy mode of an employee that exists
ModeOf(employeeId) == The(findUnique(employeeId)).autonomyMode

-----------------------------------------------------------------------------
(* Properties of evaluate *)

\* C1 Deny precedence: every evaluate call of an existing employee that met a
\* matching policy set with at least one deny policy returned allowed = false
\* and requiresApproval = false, whatever other policies and limits matched
\* and whatever the counter of the key was.
DenyPrecedence ==
    \A i \in 1..Len(calls) :
        ( /\ calls[i].op = "evaluate"
          /\ calls[i].employeeId \in EmployeeIds
          /\ HasPermission(calls[i].matched, "deny") )
        => ~calls[i].result.allowed /\ ~calls[i].result.requiresApproval

\* C1 witness: a call met a deny policy beside an allow or approval_required
\* policy with a limit, while the counter of the key had reached that limit
DenyOverExhaustedCounter ==
    \E i \in 1..Len(calls) :
        /\ calls[i].op = "evaluate"
        /\ HasPermission(calls[i].matched, "deny")
        /\ \E p \in calls[i].matched :
            /\ p.permission \in {"allow", "approval_required"}
            /\ p.rateLimit # None
            /\ calls[i].counterBefore # None
            /\ The(calls[i].counterBefore).count >= The(p.rateLimit)
        /\ ~calls[i].result.allowed

\* C2 Autonomy fallback: every evaluate call of an existing employee that met
\* no matching policy returned what the employee's autonomyMode alone fixes:
\* full allows; supervised asks for approval and creates one pending request
\* for the call's employee and action; any other mode denies; no other case
\* creates a request.
FallbackByAutonomyMode ==
    \A i \in 1..Len(calls) :
        ( /\ calls[i].op = "evaluate"
          /\ calls[i].employeeId \in EmployeeIds
          /\ calls[i].matched = {} )
        => LET mode == ModeOf(calls[i].employeeId)
               r == calls[i].result
               made == calls[i].createdRows
           IN  /\ mode = "full" =>
                    r.allowed /\ ~r.requiresApproval /\ made = <<>>
               /\ mode = "supervised" =>
                    /\ ~r.allowed /\ r.requiresApproval
                    /\ Len(made) = 1
                    /\ made[1].status = "pending"
                    /\ made[1].employeeId = calls[i].employeeId
                    /\ made[1].action = calls[i].action
               /\ mode \notin {"full", "supervised"} =>
                    ~r.allowed /\ ~r.requiresApproval /\ made = <<>>

\* C2 witness: a supervised employee's call with a context fell back to
\* approval after an earlier call had left a counter and a ledger entry
SupervisedFallbackAfterTraffic ==
    \E i \in 2..Len(calls) :
        /\ calls[i].op = "evaluate"
        /\ calls[i].employeeId \in EmployeeIds
        /\ calls[i].matched = {}
        /\ ModeOf(calls[i].employeeId) = "supervised"
        /\ calls[i].context # None
        /\ calls[i].result.requiresApproval
        /\ DOMAIN rateLimitMap # {}
        /\ Len(auditLog) >= 2

\* the first k evaluate calls met only allow policies of least limit n and
\* fell inside the window the first of them opened
AllowRunInWindow(k, n) ==
    \A j \in 1..k :
        /\ EvaluateCalls[j].matched # {}
        /\ \A p \in EvaluateCalls[j].matched : p.permission = "allow"
        /\ MinimumLimit(EvaluateCalls[j].matched) = Some(n)
        /\ EvaluateCalls[j].time - EvaluateCalls[1].time <= RATE_LIMIT_WINDOW_MS

\* C3 Rate limit admits exactly N per window: of N + 1 calls for one key under
\* allow policies of effective limit N, made inside one window starting from
\* no counter, the first N return allowed = true and the (N + 1)-th returns
\* allowed = false with the rate-limit reason.
AdmitsExactlyLimit ==
    \A n \in 1..MaxLimit : \A k \in 1..Len(EvaluateCalls) :
        (k <= n + 1 /\ EvaluateCalls[1].counterBefore = None /\ AllowRunInWindow(k, n))
        => /\ k <= n => EvaluateCalls[k].result.allowed
           /\ k = n + 1 =>
                /\ ~EvaluateCalls[k].result.allowed
                /\ EvaluateCalls[k].result.reason = RateLimitReason(EvaluateCalls[k].action, n)

\* C6 Effective rate limit: every evaluate call that met a non-empty policy
\* set without a deny passed to checkRateLimit the least of the configured
\* limits of the matching policies, whatever their order and permissions;
\* with no configured limit it made no check and the rate-limit step left
\* the counter of the key as it was.
EffectiveLimitIsMinimum ==
    \A i \in 1..Len(calls) :
        ( /\ calls[i].op = "evaluate"
          /\ calls[i].matched # {}
          /\ ~HasPermission(calls[i].matched, "deny") )
        => /\ calls[i].limitChecked = MinimumLimit(calls[i].matched)
           /\ MinimumLimit(calls[i].matched) = None =>
                calls[i].counterChecked = calls[i].counterBefore

\* C6 witness: two matching policies of different permissions and different
\* limits, the greater limit on the allow policy, and the check made with the
\* lesser one
TwoLimitsChecked ==
    \E i \in 1..Len(calls) :
        /\ calls[i].op = "evaluate"
        /\ \E p, q \in calls[i].matched :
            /\ p.permission = "allow" /\ q.permission # "allow"
            /\ p.rateLimit # None /\ q.rateLimit # None
            /\ The(q.rateLimit) < The(p.rateLimit)
            /\ calls[i].limitChecked = q.rateLimit

\* C7 One ledger entry per decision: every evaluate call that returned has
\* appended exactly one entry to the ledger, on every return path.
OneEntryPerDecision ==
    \A i \in 1..Len(calls) :
        calls[i].op = "evaluate" => Len(calls[i].appendedRows) = 1

\* C4 Approval scenario with limit 5: under the single policy
\* {approval_required, rateLimit 5}, of the calls made inside the window the
\* first one opened, each of the first five returns requiresApproval = true
\* and creates one pending request (five after the fifth), and the sixth
\* returns allowed = false, requiresApproval = false with the rate-limit
\* reason and creates no request.
FiveApprovalsThenLimited ==
    \A k \in 1..Len(EvaluateCalls) :
        EvaluateCalls[k].time - EvaluateCalls[1].time <= RATE_LIMIT_WINDOW_MS
        => /\ k <= 5 =>
                /\ EvaluateCalls[k].result.requiresApproval
                /\ Len(EvaluateCalls[k].createdRows) = 1
                /\ EvaluateCalls[k].createdRows[1].status = "pending"
           /\ k = 5 => Len(approvalRequests) >= 5
           /\ k = 6 =>
                /\ ~EvaluateCalls[k].result.allowed
                /\ ~EvaluateCalls[k].result.requiresApproval
                /\ EvaluateCalls[k].result.reason = RateLimitReason("deploy", 5)
                /\ EvaluateCalls[k].createdRows = <<>>

\* the step is an evaluate that returned: its record is the last of calls'
EvaluateReturns ==
    /\ Len(calls') = Len(calls) + 1
    /\ calls'[Len(calls')].op = "evaluate"

\* an evaluate that reached the rate-limit check with the counter of its key
\* older than the window was not rate-limited, and the check left the counter
\* at count 1 with windowStart the time of the call
FreshAfterExpiry ==
    LET c == calls'[Len(calls')]
    IN  ( /\ EvaluateReturns
          /\ c.limitChecked # None
          /\ c.counterBefore # None
          /\ c.time - The(c.counterBefore).windowStart > RATE_LIMIT_WINDOW_MS )
        => /\ c.branch # "rate_limit_exceeded"
           /\ c.result.reason # RateLimitReason(c.action, The(c.limitChecked))
           /\ c.counterChecked = Some([count |-> 1, windowStart |-> c.time])
           /\ The(c.counterAfter).windowStart = c.time

\* a step at a time when the window of a counter is live keeps the counter's
\* windowStart
LiveWindowStartKept ==
    \A key \in DOMAIN rateLimitMap :
        now' - rateLimitMap[key].windowStart <= RATE_LIMIT_WINDOW_MS
        => /\ key \in DOMAIN rateLimitMap'
           /\ rateLimitMap'[key].windowStart = rateLimitMap[key].windowStart

-----------------------------------------------------------------------------
(* Properties of the ledger *)

\* C8 Chain linkage under sequential appends: the first entry's previousHash
\* is the genesis constant and every later entry's previousHash is the hash
\* of the entry appended immediately before it.
ChainLinked ==
    \A i \in 1..Len(auditLog) :
        auditLog[i].previousHash = IF i = 1 THEN GENESIS_HASH ELSE auditLog[i - 1].hash

\* C9 verifyChain accepts untampered ledgers: on a ledger built by sequential
\* appends only, every verifyChain returns valid = true with no brokenAt.
UntamperedVerifies ==
    \A i \in 1..Len(calls) :
        calls[i].op = "verifyChain" => calls[i].result = [valid |-> TRUE, brokenAt |-> None]

\* C10 Tamper detection: when one field (action, details or timestamp) of one
\* entry of a valid ledger is changed, the next verifyChain returns
\* valid = false with brokenAt the 0-based index of the changed entry.
TamperFoundAtItsIndex ==
    \A i \in 2..Len(calls) :
        ( /\ calls[i].op = "verifyChain"
          /\ calls[i - 1].op = "tamper"
          /\ calls[i - 1].validBefore )
        => calls[i].result = [valid |-> FALSE, brokenAt |-> Some(calls[i - 1].row - 1)]

\* every entry of the ledger has a timestamp of its own
DistinctTimestamps ==
    \A i, j \in 1..Len(auditLog) : i # j => auditLog[i].timestamp # auditLog[j].timestamp

\* C11 No chain fork under concurrency: however log calls interleave, no two
\* entries have the same previousHash and verifyChain answers valid = true;
\* stated for the ledgers whose entries all differ in timestamp, where the
\* order of the entries is certain.
NoForkUnderConcurrency ==
    DistinctTimestamps
    => /\ \A i, j \in 1..Len(auditLog) :
            i # j => auditLog[i].previousHash # auditLog[j].previousHash
       /\ VerifyResults(auditLog) = {[valid |-> TRUE, brokenAt |-> None]}

-----------------------------------------------------------------------------
(* Properties of the trust boundary *)

\* the team of an employee, if there is such an employee with a team
TeamOf(employeeId) ==
    IF findUnique(employeeId) = None THEN None ELSE The(findUnique(employeeId)).teamId

-----------------------------------------------------------------------------
(* Properties of the approval requests *)

\* C13 Approval resolved at most once: whatever the interleaving of the
\* resolve requests, every update of an ApprovalRequest finds its status
\* pending, so that a request once approved or denied is never written again.
ResolvedAtMostOnce ==
    \A i \in 1..Len(calls) :
        calls[i].op = "approvalRequest.update" => calls[i].from = "pending"

\* the step is a PUT handler returning: its record is the last of calls'
ResolveReturns ==
    /\ Len(calls') = Len(calls) + 1
    /\ calls'[Len(calls')].op = "resolve"

\* the answer of a returning PUT handler follows from what it was asked and
\* what it read, and an error answer comes with no write
ResolveErrorStep ==
    LET c == calls'[Len(calls')]
    IN  ResolveReturns
        => /\ c.status \notin {"approved", "denied"} => c.code = 400
           /\ (c.status \in {"approved", "denied"} /\ c.existing = None) => c.code = 404
           /\ ( /\ c.status \in {"approved", "denied"}
                /\ c.existing # None
                /\ The(c.existing).status # "pending" ) => c.code = 409
           /\ c.code \in {400, 404, 409}
                => /\ approvalRequests' = approvalRequests
                   /\ auditLog' = auditLog

\* C14 Resolve errors leave state unchanged: a resolve of a request that is
\* not pending answers 409, of an unknown id 404, with an outcome other than
\* approved or denied 400, and in the three cases the ApprovalRequest store
\* and the ledger stay as they were.
ResolveErrorsChangeNothing == [][ResolveErrorStep]_vars

\* C14 witness: a request was resolved, and a later resolve of it was answered
\* with a conflict
ConflictAnswered ==
    \E i, j \in 1..Len(calls) :
        /\ i < j
        /\ calls[i].op = "resolve" /\ calls[i].code = 200
        /\ calls[j].op = "resolve" /\ calls[j].code = 409
        /\ calls[j].id = calls[i].id

-----------------------------------------------------------------------------
(* Further properties of evaluate *)

\* an evaluate for an id the Employee table does not hold answers no and asks
\* for no approval, and leaves the counters, the requests and the policies
UnknownSubjectStep ==
    LET c == calls'[Len(calls')]
    IN  (EvaluateReturns /\ c.employeeId \notin EmployeeIds)
        => /\ ~c.result.allowed
           /\ ~c.result.requiresApproval
           /\ rateLimitMap' = rateLimitMap
           /\ approvalRequests' = approvalRequests
           /\ policies' = policies

\* C15 Unknown subject fails closed: evaluate for a subject the store does not
\* contain returns allowed = false and requiresApproval = false, and leaves
\* the rate-limit counters, the ApprovalRequest store and the policy store
\* unchanged.
UnknownSubjectFailsClosed == [][UnknownSubjectStep]_vars

\* C15 witness: an unknown subject was answered while a counter existed
UnknownSubjectAfterTraffic ==
    /\ Len(calls) >= 2
    /\ calls[Len(calls)].op = "evaluate"
    /\ calls[Len(calls)].employeeId \notin EmployeeIds
    /\ ~calls[Len(calls)].result.allowed
    /\ DOMAIN rateLimitMap # {}

\* C16 Approval requests are created exactly when approval is required: an
\* evaluate whose result has requiresApproval = true created exactly one
\* request, pending, for the employee and the action of the call; one whose
\* result has requiresApproval = false created none; and no result has both
\* allowed = true and requiresApproval = true.
ApprovalCreatedIffRequired ==
    \A i \in 1..Len(calls) :
        calls[i].op = "evaluate"
        => /\ calls[i].result.requiresApproval
                => /\ Len(calls[i].createdRows) = 1
                   /\ calls[i].createdRows[1].status = "pending"
                   /\ calls[i].createdRows[1].action = calls[i].action
                   /\ calls[i].createdRows[1].employeeId = calls[i].employeeId
           /\ ~calls[i].result.requiresApproval => calls[i].createdRows = <<>>
           /\ ~(calls[i].result.allowed /\ calls[i].result.requiresApproval)

\* C16 witness: one call was answered with requiresApproval and created its
\* request under a policy, without a context, and another was denied by
\* policy and created none
ApprovalAndDenialSeen ==
    \E i, j \in 1..Len(calls) :
        /\ calls[i].op = "evaluate" /\ calls[i].branch = "approval_requested"
        /\ calls[i].context = None
        /\ Len(calls[i].createdRows) = 1
        /\ calls[j].op = "evaluate" /\ calls[j].branch = "policy_denied"
        /\ calls[j].createdRows = <<>>

\* an evaluate that ends in policy-deny leaves the rate-limit map as it was
DenyStep ==
    (EvaluateReturns /\ calls'[Len(calls')].branch = "policy_denied")
    => rateLimitMap' = rateLimitMap

\* an evaluate that ended in policy-deny called no checkRateLimit, created no
\* request, and gave the policy-deny reason
DenyRecord(c) ==
    /\ c.limitChecked = None
    /\ c.counterChecked = c.counterBefore
    /\ c.counterAfter = c.counterBefore
    /\ c.createdRows = <<>>
    /\ c.result.reason = "Action \"" \o c.action \o "\" is explicitly denied by policy"

\* C20 Deny short-circuits rate limiting: an evaluate that ends in policy-deny
\* neither consults nor changes the rate-limit map, creates no
\* ApprovalRequest, and gives the policy-deny reason, also when the counter of
\* the key has reached the limit of a matching policy.
DenyShortCircuits ==
    [][ /\ DenyStep
        /\ (EvaluateReturns /\ calls'[Len(calls')].branch = "policy_denied")
            => DenyRecord(calls'[Len(calls')]) ]_vars

\* C20 witness: a call ended in policy-deny, with the policy-deny reason,
\* while the live counter of its key stood at or above the least limit of
\* the matching policies
DenyAtTheLimit ==
    \E i \in 1..Len(calls) :
        /\ calls[i].op = "evaluate"
        /\ calls[i].branch = "policy_denied"
        /\ ConfiguredLimits(calls[i].matched) # {}
        /\ calls[i].counterBefore # None
        /\ The(calls[i].counterBefore).count >= The(MinimumLimit(calls[i].matched))
        /\ calls[i].time - The(calls[i].counterBefore).windowStart <= RATE_LIMIT_WINDOW_MS
        /\ calls[i].counterAfter = calls[i].counterBefore
        /\ DenyRecord(calls[i])

-----------------------------------------------------------------------------
(* Further properties of the ledger *)

\* C17 Hash round-trip: for every entry that log wrote, the hash recomputed
\* from the stored previousHash, action, details and timestamp is the stored
\* hash.
HashRoundTrip ==
    \A i \in 1..Len(auditLog) :
        auditLog[i].hash = computeHash(auditLog[i].previousHash, auditLog[i].action,
                                       auditLog[i].details,
                                       toISOString(auditLog[i].timestamp))

\* C17 witness: an entry was written at an instant that is not a whole second
EntryOffTheSecond ==
    \E i \in 1..Len(auditLog) :
        /\ auditLog[i].timestamp % 1000 # 0
        /\ auditLog[i].previousHash # GENESIS_HASH

\* C18 Tail hash: getLastHash returns the hash of the entry appended last,
\* also when consecutive appends got equal timestamps, and the genesis
\* constant when the ledger is empty.
TailHashIsLast ==
    getLastHash(auditLog) =
        {IF auditLog = <<>> THEN GENESIS_HASH ELSE auditLog[Len(auditLog)].hash}

-----------------------------------------------------------------------------
(* Properties of checkRateLimit *)

\* C19 Checking capacity does not consume it: of two checkRateLimit calls for
\* the same key and limit, with no evaluate of that key in between and the
\* later one inside the window the earlier one left, the later gives the
\* answer the earlier gave.
CheckConsumesNothing ==
    \A i, j \in 1..Len(calls) :
        ( /\ i < j
          /\ calls[i].op = "checkRateLimit" /\ calls[j].op = "checkRateLimit"
          /\ calls[i].employeeId = calls[j].employeeId
          /\ calls[i].action = calls[j].action
          /\ calls[i].limit = calls[j].limit
          /\ \A k \in (i + 1)..(j - 1) :
                calls[k].op = "checkRateLimit" /\ calls[k].limit = calls[i].limit
          /\ calls[j].time - The(calls[i].counterAfter).windowStart <= RATE_LIMIT_WINDOW_MS )
        => calls[j].result = calls[i].result

-----------------------------------------------------------------------------
(* Properties of the rate-limited path *)

\* the call was denied for rate limit: it asked checkRateLimit about a live
\* counter whose count had reached the limit
RateLimited(c) ==
    /\ c.limitChecked # None
    /\ c.counterBefore # None
    /\ c.time - The(c.counterBefore).windowStart <= RATE_LIMIT_WINDOW_MS
    /\ The(c.counterBefore).count >= The(c.limitChecked)

\* the call ran incrementRateCounter: the counter at the return is not the
\* counter the rate-limit step left
Incremented(c) == c.counterAfter # c.counterChecked

\* C21 Rate-limited denial has no side effect: an evaluate denied for rate
\* limit answers no with the rate-limit reason, which is not the policy-deny
\* reason, creates no ApprovalRequest and leaves the counter of its key as
\* it found it; and only the calls that return allowed = true by policy run
\* incrementRateCounter or raise the count of a counter.
RateLimitedHasNoEffect ==
    \A i \in 1..Len(calls) :
        calls[i].op = "evaluate"
        => /\ RateLimited(calls[i])
                => /\ ~calls[i].result.allowed
                   /\ ~calls[i].result.requiresApproval
                   /\ calls[i].result.reason =
                        RateLimitReason(calls[i].action, The(calls[i].limitChecked))
                   /\ calls[i].result.reason #
                        "Action \"" \o calls[i].action \o "\" is explicitly denied by policy"
                   /\ calls[i].createdRows = <<>>
                   /\ calls[i].counterAfter = calls[i].counterBefore
           /\ Incremented(calls[i])
                => /\ calls[i].result.allowed
                   /\ HasPermission(calls[i].matched, "allow")
           /\ ( /\ calls[i].counterBefore # None
                /\ calls[i].counterAfter # None
                /\ The(calls[i].counterAfter).count > The(calls[i].counterBefore).count )
                => /\ calls[i].result.allowed
                   /\ HasPermission(calls[i].matched, "allow")

\* C21 witness: a call allowed by policy raised the counter to the limit, and
\* the next call under the same allow policy was denied for rate limit and
\* left the counter and the requests as they were
AllowedThenRateLimited ==
    \E i, j \in 1..Len(calls) :
        /\ i < j
        /\ calls[i].op = "evaluate" /\ calls[i].result.allowed /\ Incremented(calls[i])
        /\ calls[j].op = "evaluate" /\ RateLimited(calls[j])
        /\ calls[j].matched = calls[i].matched
        /\ calls[j].counterBefore = calls[i].counterAfter
        /\ ~calls[j].result.allowed
        /\ calls[j].createdRows = <<>>
        /\ calls[j].counterAfter = calls[j].counterBefore

-----------------------------------------------------------------------------
(* Properties of concurrent evaluate calls *)

\* the calls of the key of call i that returned allowed = true and whose
\* rate-limit check fell in the counter window of call i
AllowedInWindowOf(i) ==
    {j \in 1..Len(calls) :
        /\ calls[j].op = "evaluate"
        /\ calls[j].employeeId = calls[i].employeeId
        /\ calls[j].action = calls[i].action
        /\ calls[j].result.allowed
        /\ calls[j].counterChecked # None
        /\ The(calls[j].counterChecked).windowStart =
                The(calls[i].counterChecked).windowStart}

\* C22 Check-then-increment race: the calls for one key that return
\* allowed = true under an allow policy of limit N within one counter window
\* exceed N by no more than the number of calls that were in flight together
\* when one of them was decided.
ExcessWithinInFlight ==
    \A i \in 1..Len(calls) :
        ( /\ calls[i].op = "evaluate"
          /\ calls[i].result.allowed
          /\ calls[i].limitChecked # None )
        => \E j \in AllowedInWindowOf(i) :
                Cardinality(AllowedInWindowOf(i))
                    <= The(calls[i].limitChecked) + calls[j].inFlight

\* C22 witness: more calls than the limit returned allowed = true within one
\* counter window
LimitExceededByRace ==
    \E i \in 1..Len(calls) :
        /\ calls[i].op = "evaluate"
        /\ calls[i].result.allowed
        /\ calls[i].limitChecked # None
        /\ Cardinality(AllowedInWindowOf(i)) > The(calls[i].limitChecked)

-----------------------------------------------------------------------------
(* Properties of verifyChain *)

\* the 0-based indices of the entries, in the order walked, whose
\* previousHash is not the hash of the entry before (the genesis constant for
\* the first) or whose stored hash is not the hash of their fields
Breaks(entries) ==
    {i - 1 : i \in {k \in 1..Len(entries) :
        \/ entries[k].previousHash #
                (IF k = 1 THEN GENESIS_HASH ELSE entries[k - 1].hash)
        \/ entries[k].hash # computeHash(entries[k].previousHash, entries[k].action,
                                         entries[k].details,
                                         toISOString(entries[k].timestamp))}}

\* the answer that names the least of a set of indices, valid when there is none
FirstOf(breaks) ==
    IF breaks = {} THEN [valid |-> TRUE, brokenAt |-> None]
    ELSE [valid |-> FALSE,
          brokenAt |-> Some(CHOOSE i \in breaks : \A j \in breaks : i <= j)]

\* C23 verifyChain reports the first break: on the entries in every order the
\* store may return them oldest-first, verifyChain answers valid = false with
\* brokenAt the least index whose previousHash or stored hash is wrong, and
\* valid = true exactly when there is no such index; an empty ledger is valid.
FirstBreakReported ==
    /\ \A ord \in AscOrders(auditLog) :
        verifyChain(Ordered(auditLog, ord)) = FirstOf(Breaks(Ordered(auditLog, ord)))
    /\ verifyChain(<<>>) = [valid |-> TRUE, brokenAt |-> None]

\* C23 witness: verifyChain was called on a ledger that has a wrong stored
\* hash at one index and a wrong previousHash at another, and named the lesser
TwoBreaksFirstNamed ==
    /\ Len(calls) >= 1
    /\ calls[Len(calls)].op = "verifyChain"
    /\ ~calls[Len(calls)].result.valid
    /\ \E ord \in AscOrders(auditLog) :
        LET entries == Ordered(auditLog, ord)
        IN  /\ calls[Len(calls)].result = FirstOf(Breaks(entries))
            /\ \E i, j \in 1..Len(entries) :
                /\ i # j
                /\ entries[i].previousHash #
                        (IF i = 1 THEN GENESIS_HASH ELSE entries[i - 1].hash)
                /\ entries[j].hash # computeHash(entries[j].previousHash, entries[j].action,
                                                 entries[j].details,
                                                 toISOString(entries[j].timestamp))

\* a returning log has added one entry behind the entries that were there,
\* with previousHash a hash getLastHash gives on them and the hash of its own
\* fields, whatever verifyChain says of them
LogLinksToTail ==
    (Len(calls') = Len(calls) + 1 /\ calls'[Len(calls')].op = "log")
    => /\ Len(auditLog') = Len(auditLog) + 1
       /\ SubSeq(auditLog', 1, Len(auditLog)) = auditLog
       /\ auditLog'[Len(auditLog')].previousHash \in getLastHash(auditLog)
       /\ auditLog'[Len(auditLog')].hash =
            computeHash(auditLog'[Len(auditLog')].previousHash,
                        auditLog'[Len(auditLog')].action,
                        auditLog'[Len(auditLog')].details,
                        toISOString(auditLog'[Len(auditLog')].timestamp))

\* a returning verifyChain has left the ledger as it was
VerifyKeepsLedger ==
    (Len(calls') = Len(calls) + 1 /\ calls'[Len(calls')].op = "verifyChain")
    => auditLog' = auditLog

\* C24 Integrity violations are reported, never enforced or repaired: log can
\* always append, also to a chain that is broken, and links the new entry to
\* the tail getLastHash gives; verifyChain leaves every entry unchanged,
\* whether it answers valid = true or valid = false.
ReportedNotEnforced ==
    /\ [](ENABLED Log("action.1", "First action", ""))
    /\ [][LogLinksToTail /\ VerifyKeepsLedger]_vars

\* C24 witness: a row was edited, verifyChain answered valid = false, and a
\* later log appended to the broken chain, which still holds the edited row
BrokenChainAppendedTo ==
    \E i, j, k \in 1..Len(calls) :
        /\ i < j /\ j < k
        /\ calls[i].op = "tamper" /\ calls[i].validBefore
        /\ calls[j].op = "verifyChain" /\ ~calls[j].result.valid
        /\ calls[k].op = "log" /\ calls[k].row = Len(auditLog)
        /\ [valid |-> TRUE, brokenAt |-> None] \notin VerifyResults(auditLog)

\* the operation that returns in the step, if one does
Returning == IF Len(calls') = Len(calls) + 1 THEN Some(calls'[Len(calls')]) ELSE None

\* the operations whose return follows an AuditLogger.log of their own
Appends(c) ==
    \/ c.op \in {"log", "policyPOST"}
    \/ c.op = "resolve" /\ c.code = 200
    \/ c.op = "evaluate" /\ c.branch \notin {"not_found", "default_deny"}
    \/ c.op = "checkInterAgentPermission" /\ c.branch # "not_found"

\* a step keeps every entry of the ledger as it is and adds at most one
\* behind them: exactly one when an appending operation returns, none otherwise
LedgerStep ==
    /\ Len(auditLog') >= Len(auditLog)
    /\ SubSeq(auditLog', 1, Len(auditLog)) = auditLog
    /\ Len(auditLog') =
            IF Returning # None /\ Appends(The(Returning))
            THEN Len(auditLog) + 1 ELSE Len(auditLog)

\* C25 Append-only ledger: across the operations of the core (evaluate,
\* checkInterAgentPermission, log, verifyChain, getLastHash, approval
\* resolve) the ledger never gets shorter, every entry keeps its action,
\* details, hash, previousHash and timestamp, and each append adds exactly
\* one entry.
AppendOnly == [][LedgerStep]_vars

\* C25 witness: the entry written for an evaluate that asked for approval is
\* still the first of the ledger after the request was resolved and the
\* resolution was appended behind it
FirstEntryKept ==
    \E i, j \in 1..Len(calls) :
        /\ i < j
        /\ calls[i].op = "evaluate" /\ calls[i].result.requiresApproval
        /\ Len(calls[i].appendedRows) = 1
        /\ auditLog[1] = calls[i].appendedRows[1]
        /\ calls[j].op = "resolve" /\ calls[j].code = 200
        /\ Len(auditLog) = 2
        /\ auditLog[2].action = "approval_" \o calls[j].status

-----------------------------------------------------------------------------
(* Properties of the default return of evaluate *)

\* the permissions the loop of evaluate has a case for
KnownPermissions == {"deny", "approval_required", "allow"}

\* C26 Defensive default fails closed: an evaluate that met a non-empty policy
\* set in which no permission is deny, approval_required or allow returns
\* allowed = false and requiresApproval = false, creates no ApprovalRequest
\* and does not run incrementRateCounter nor change a live counter; and an
\* evaluate returns allowed = true only when a matching policy allows and
\* none denies or requires approval, or when no policy matches and the
\* employee's autonomyMode is full.
DefaultFailsClosed ==
    \A i \in 1..Len(calls) :
        calls[i].op = "evaluate"
        => /\ ( /\ calls[i].matched # {}
                /\ \A p \in calls[i].matched : p.permission \notin KnownPermissions )
                => /\ ~calls[i].result.allowed
                   /\ ~calls[i].result.requiresApproval
                   /\ calls[i].createdRows = <<>>
                   /\ ~Incremented(calls[i])
                   /\ ( /\ calls[i].counterBefore # None
                        /\ calls[i].time - The(calls[i].counterBefore).windowStart
                                <= RATE_LIMIT_WINDOW_MS )
                        => calls[i].counterAfter = calls[i].counterBefore
           /\ calls[i].result.allowed
                => \/ /\ HasPermission(calls[i].matched, "allow")
                      /\ ~HasPermission(calls[i].matched, "deny")
                      /\ ~HasPermission(calls[i].matched, "approval_required")
                   \/ /\ calls[i].matched = {}
                      /\ calls[i].employeeId \in EmployeeIds
                      /\ ModeOf(calls[i].employeeId) = "full"

\* C26 witness: a second call of an employee of full autonomy met only a
\* policy of an unknown permission with a limit, passed the rate-limit check
\* and was denied by default, the counter left as the first call left it
DeniedByDefaultTwice ==
    \E i \in 2..Len(calls) :
        /\ calls[i].op = "evaluate"
        /\ ModeOf(calls[i].employeeId) = "full"
        /\ calls[i].matched # {}
        /\ \A p \in calls[i].matched : p.permission \notin KnownPermissions
        /\ calls[i].limitChecked # None
        /\ calls[i].counterBefore # None
        /\ calls[i].counterAfter = calls[i].counterBefore
        /\ calls[i].result.reason = "No matching permission found; defaulting to deny"
        /\ ~calls[i].result.allowed

-----------------------------------------------------------------------------
(* Further properties of the trust boundary *)

\* C27 Trust-boundary logging: a checkInterAgentPermission between two
\* employees that exist appends exactly one ledger entry, whose action is
\* inter_agent_allowed exactly when the call returns true and
\* inter_agent_denied exactly when it returns false, a cross-team refusal
\* included; a call with a missing employee returns false and appends none.
OneTrustEntry ==
    \A i \in 1..Len(calls) :
        calls[i].op = "checkInterAgentPermission"
        => IF calls[i].fromId \in EmployeeIds /\ calls[i].toId \in EmployeeIds
           THEN /\ Len(calls[i].appendedRows) = 1
                /\ calls[i].appendedRows[1].action \in
                        {"inter_agent_allowed", "inter_agent_denied"}
                /\ calls[i].appendedRows[1].action = "inter_agent_allowed"
                        <=> calls[i].result
                /\ calls[i].appendedRows[1].action = "inter_agent_denied"
                        <=> ~calls[i].result
           ELSE /\ ~calls[i].result
                /\ calls[i].appendedRows = <<>>

\* C27 witness: a call across teams by an agent allowed neither
\* cross_team:<action> nor inter_agent:<action> was refused with one entry
RefusedAcrossTeamsOnce ==
    \E i \in 1..Len(calls) :
        /\ calls[i].op = "checkInterAgentPermission"
        /\ calls[i].fromId \in EmployeeIds /\ calls[i].toId \in EmployeeIds
        /\ TeamOf(calls[i].fromId) # TeamOf(calls[i].toId)
        /\ calls[i].allowedTo = {}
        /\ ~calls[i].result
        /\ Len(calls[i].appendedRows) = 1
        /\ calls[i].appendedRows[1].action = "inter_agent_denied"
        /\ auditLog = calls[i].appendedRows

-----------------------------------------------------------------------------
(* Properties of the approval requests and the ledger *)

\* the ledger has an entry of one of the actions for the employee of the
\* request, naming the action of the request
Ledgered(request, actions) ==
    \E i \in 1..Len(auditLog) :
        /\ auditLog[i].action \in actions
        /\ auditLog[i].employeeId = Some(request.employeeId)
        /\ \/ auditLog[i].details = DetailsOf(auditLog[i].action, request.action, None)
           \/ auditLog[i].details =
                "Approval request for \"" \o request.action \o "\" was " \o request.status
                    \o " (employee: \"" \o The(findUnique(request.employeeId)).name \o "\")"

\* C28 Every approval event is in the ledger: whenever no operation is in
\* progress, also after a store call has failed in the middle of one, every
\* ApprovalRequest has an approval_requested or autonomy_approval entry, and
\* every one that is approved or denied has an approval_approved or
\* approval_denied entry.
ApprovalEventsLedgered ==
    Busy = {}
    => \A id \in 1..Len(approvalRequests) :
        /\ Ledgered(approvalRequests[id], {"approval_requested", "autonomy_approval"})
        /\ approvalRequests[id].status \in {"approved", "denied"}
            => Ledgered(approvalRequests[id], {"approval_" \o approvalRequests[id].status})

-----------------------------------------------------------------------------
(* Properties of the counters *)

\* the calls before call j that were made for the (employeeId, action) of call j
EarlierOfPair(j) ==
    {i \in 1..(j - 1) :
        /\ calls[i].employeeId = calls[j].employeeId
        /\ calls[i].action = calls[j].action}

\* C29 Counters are independent per (subject, action): a call for a pair
\* finds the counter of the pair as the last call for that same pair left
\* it, and finds none when there was no such call: the calls for other pairs
\* in between have not touched it, also when an id or an action contains ':'.
CountersIndependent ==
    \A j \in 1..Len(calls) :
        calls[j].op \in {"checkRateLimit", "evaluate"}
        => calls[j].counterBefore =
                IF EarlierOfPair(j) = {} THEN None
                ELSE calls[CHOOSE i \in EarlierOfPair(j) :
                            \A k \in EarlierOfPair(j) : k <= i].counterAfter

\* C30 Sequential limit is never exceeded: when the evaluate calls for one key
\* are made one at a time and each is checked against the same limit N, the
\* calls that return allowed = true and were decided within one counter
\* window are at most N.
SequentialLimitKept ==
    \A i \in 1..Len(calls) :
        ( /\ calls[i].op = "evaluate"
          /\ calls[i].result.allowed
          /\ calls[i].limitChecked # None
          /\ \A j \in 1..Len(calls) : calls[j].inFlight = 1
          /\ \A j \in AllowedInWindowOf(i) : calls[j].limitChecked = calls[i].limitChecked )
        => Cardinality(AllowedInWindowOf(i)) <= The(calls[i].limitChecked)

\* C30 witness: a call was allowed, the next was denied for rate limit within
\* the window of the first, and a call after the end of that window was
\* allowed again
AllowedDeniedAllowedAgain ==
    \E i, j, k \in 1..Len(calls) :
        /\ i < j /\ j < k
        /\ calls[i].op = "evaluate" /\ calls[i].result.allowed
        /\ calls[j].op = "evaluate" /\ RateLimited(calls[j])
        /\ The(calls[j].counterChecked).windowStart = The(calls[i].counterChecked).windowStart
        /\ calls[k].op = "evaluate" /\ calls[k].result.allowed
        /\ calls[k].limitChecked = calls[i].limitChecked
        /\ The(calls[k].counterChecked).windowStart > The(calls[i].counterChecked).windowStart
        /\ Cardinality(AllowedInWindowOf(i)) = 1

====
